---- MODULE Spec2Model ----
(***************************************************************************)
(* Flavour Crusaders restaurant map (src/script.js).                       *)
(*                                                                         *)
(* The page is single threaded: every action below is one task of the      *)
(* browser's event loop (the DOMContentLoaded handler up to its first      *)
(* await, the continuation after an await, a DOM event handler, or one     *)
(* animation frame running the queued requestAnimationFrame callbacks).    *)
(* The mapping library and the DOM are black boxes: a marker is identified *)
(* by the restaurant it was created for, a bounds object by the set of     *)
(* restaurants it was extended with.                                       *)
(***************************************************************************)
EXTENDS Integers, Sequences, FiniteSets, TLC

\* ------------------------------------------------------------- bounds
\* Longest dataset a data file holds.
MaxLen == 2
\* Most centerMapIfNeeded callbacks waiting for the next animation frame.
MaxPending == 2

\* ------------------------------------------------------------- values
\* JSON values of restaurant.rating: absent, null, or a number.
RUndefined == [t |-> "undefined", n |-> 0]
RNull == [t |-> "null", n |-> 0]
RNum(k) == [t |-> "number", n |-> k]
RatingNumbers == {0, 6, 9}
RatingValues == {RUndefined, RNull} \cup {RNum(k) : k \in RatingNumbers}

\* A restaurant record; id stands for its name and its lat/lon (the position
\* of the record in the data file). review is "string" for a review that is
\* absent, null or a string, and "number" for the malformed record whose review
\* is a number (one such record is enough: visited and rated, so that the
\* popup code reads the review).
Restaurant(i) ==
    [id : {i}, visited : BOOLEAN, rating : RatingValues, review : {"string"}]
        \cup {[id |-> i, visited |-> TRUE, rating |-> RNum(9), review |-> "number"]}

\* The datasets a data file can hold in its "restaurants" array.
Datasets ==
    UNION { { s \in [1..n -> UNION {Restaurant(i) : i \in 1..n}] :
                \A i \in 1..n : s[i].id = i } : n \in 0..MaxLen }

\* this.restaurants when data.restaurants is absent from the file: the value
\* undefined, kept apart from every array by the id 0.
undefined == << [id |-> 0, visited |-> FALSE, rating |-> RUndefined, review |-> "string"] >>

\* The candidate paths of loadRestaurants.
paths == << "/flavour-crusaders/restaurants.json", "./restaurants.json" >>

\* The values of the rating filter <select>.
FilterOptions == << "", "9", "8", "7", "6", "5" >>
FilterValues == { FilterOptions[i] : i \in 1..Len(FilterOptions) }

\* parseFloat on the option values.
parseFloat(s) ==
    CASE s = "9" -> 9
      [] s = "8" -> 8
      [] s = "7" -> 7
      [] s = "6" -> 6
      [] s = "5" -> 5

\* JavaScript truthiness of a rating: undefined, null and 0 are falsy.
Truthy(rating) == rating.t = "number" /\ rating.n # 0

\* GreaterOrEqual with the floor made exclusive (> for >=).
GreaterOrEqualStrict(rating, x) ==
    CASE rating.t = "number" -> rating.n > x
      [] rating.t = "null" -> 0 > x
      [] rating.t = "undefined" -> FALSE

\* r.rating >= x: ToNumber(null) is 0, ToNumber(undefined) is NaN and every
\* comparison with NaN is false.
GreaterOrEqual(rating, x) ==
    CASE rating.t = "number" -> rating.n >= x
      [] rating.t = "null" -> 0 >= x
      [] rating.t = "undefined" -> FALSE

VARIABLES
    pc,                   \* position of the DOMContentLoaded handler
    pathIdx,              \* index in paths of the fetch in flight (0: none)
    hasList,              \* document.getElementById('restaurantList') exists
    restaurants,          \* RestaurantManager.restaurants
    filteredRestaurants,  \* RestaurantManager.filteredRestaurants
    ratingFilter,         \* value of the #ratingFilter select
    markers,              \* RestaurantMap.markers (ids, in creation order)
    initialLoad,          \* RestaurantMap.initialLoad
    rafQueue,             \* bounds of the queued centerMapIfNeeded callbacks
    list,                 \* children of the #restaurantList element
    op,                   \* the handler that ran last
    trace,                \* the calls the last handler made, in order
    window,               \* markers added by the last render, automatic fits since
    prevWindow,           \* window as it was when the last render cleared
    served,               \* data.restaurants of the last response.json()
    wired,                \* setupEventListeners has attached the listeners
    latInput,             \* the #newLat input: on the page or not, and its value
    lonInput,             \* the #newLon input
    tempMarker,           \* RestaurantMap.tempMarker: NoMarker or the point it is at
    tempLayers            \* the placeholder markers on the map
    
vars == << pc, pathIdx, hasList, restaurants, filteredRestaurants, ratingFilter,
           markers, initialLoad, rafQueue, list, op, trace, window, prevWindow,
           served, wired, latInput, lonInput, tempMarker, tempLayers >>

\* The variables of the map click handler.
clickVars == << latInput, lonInput, tempMarker, tempLayers >>

\* ------------------------------------------------------------- RestaurantMap
\* One recorded call: the function, how fitBounds was reached ("auto" from the
\* centerMapIfNeeded callback, "manual" from show-all; for fetch: the path;
\* "-" otherwise), the bounds passed, and initialLoad and markers at the call
\* (for clearMarkers: when it returns).
Call(fn, via, bounds, il, m) ==
    [fn |-> fn, via |-> via, bounds |-> bounds, initialLoad |-> il, markers |-> m]

\* clearMarkers without its `this.markers = []`.
clearMarkersKeepsList(m, il) ==
    IF Len(m) = 0
    THEN [markers |-> m, initialLoad |-> il]
    ELSE [markers |-> m, initialLoad |-> TRUE]

\* clearMarkers(): the markers and the flag it leaves.
clearMarkers(m, il) ==
    IF Len(m) = 0
    THEN [markers |-> m, initialLoad |-> il]
    ELSE [markers |-> << >>, initialLoad |-> TRUE]

\* addMarker without its `this.markers.push(marker)`.
addMarkerNoPush(m, restaurant) == m

\* addMarker(restaurant): the marker is pushed on this.markers.
addMarker(m, restaurant) == Append(m, restaurant.id)

\* addMarker(restaurant) throws: for a visited, rated restaurant the popup code
\* calls restaurant.review.trim(), a TypeError when the review is a number.
addMarkerThrows(restaurant) ==
    restaurant.visited /\ Truthy(restaurant.rating) /\ restaurant.review = "number"

\* centerMapIfNeeded(bounds): the callbacks it hands to requestAnimationFrame.
centerMapIfNeeded(il, m, bounds) ==
    IF il /\ Len(m) > 0 THEN << bounds >> ELSE << >>

\* L.latLngBounds(markers.map(m => m.getLatLng())).
BoundsOfMarkers(m) == { m[i] : i \in 1..Len(m) }

\* ------------------------------------------------------------- RestaurantManager
\* The two groups of updateDisplay.
IsVisited(r) == r.visited /\ Truthy(r.rating)
\* The unvisited group without its `|| !r.rating`.
IsUnvisitedByFlagOnly(r) == ~r.visited
IsUnvisited(r) == ~r.visited \/ ~Truthy(r.rating)
VisitedOf(fr) == SelectSeq(fr, IsVisited)
UnvisitedOf(fr) == SelectSeq(fr, IsUnvisited)

\* The comparator with its operands swapped (ascending order).
ComparatorAscending(a, b) == a.rating.n - b.rating.n

\* The comparator of visited.sort: negative when a goes before b.
Comparator(a, b) == b.rating.n - a.rating.n

\* Array.prototype.sort is stable (ECMAScript 2019; the script needs a later
\* engine for its optional chaining): x goes before the first element that
\* the comparator puts after it.
Insert(s, x) ==
    LET after == { i \in 1..Len(s) : Comparator(s[i], x) > 0 }
        p == IF after = {} THEN Len(s) + 1
             ELSE CHOOSE i \in after : \A j \in after : i <= j
    IN  SubSeq(s, 1, p - 1) \o << x >> \o SubSeq(s, p, Len(s))

RECURSIVE Sort(_)
Sort(s) ==
    IF s = << >> THEN << >>
    ELSE Insert(Sort(SubSeq(s, 1, Len(s) - 1)), s[Len(s)])

\* Children of the list element.
Heading(text) == [kind |-> "h3", text |-> text, id |-> 0]
NoResults == [kind |-> "no-results", text |-> "No restaurants match your criteria", id |-> 0]
ErrorMessage == [kind |-> "error-message", text |-> "Failed to load restaurant data. Please try again later.", id |-> 0]
\* createRestaurantElement(restaurant, marker).
createRestaurantElement(r) ==
    [kind |-> "restaurant",
     text |-> IF Truthy(r.rating) THEN "rating" ELSE "Unrated",
     id |-> r.id]

\* One group of the list: its heading and rows (nothing when it is empty).
Section(text, group) ==
    IF Len(group) = 0 THEN << >>
    ELSE << Heading(text) >> \o [i \in 1..Len(group) |-> createRestaurantElement(group[i])]

RECURSIVE AddMarkers(_, _)
AddMarkers(m, group) ==
    IF group = << >> THEN m
    ELSE AddMarkers(addMarker(m, group[1]), Tail(group))

\* visited.sort sorting the filtered list itself instead of the copy.
filteredAfterSortInPlace(fr) == Sort(fr)

\* The array fr (this.filteredRestaurants) after visited.sort: filter made
\* visited a new array, so the sort does not touch fr.
filteredAfterSort(fr) == fr

\* updateDisplay() on the filtered list fr: what it leaves and the calls it makes.
updateDisplay(fr) ==
    LET entered == << Call("updateDisplay", "-", {}, initialLoad, markers) >>
    IN
    IF ~hasList
    THEN [threw |-> FALSE, rendered |-> FALSE, list |-> list, markers |-> markers,
          initialLoad |-> initialLoad, scheduled |-> << >>, trace |-> entered,
          array |-> fr]
    ELSE
      LET c == clearMarkers(markers, initialLoad)
          cleared == entered \o << Call("clearMarkers", "-", {}, c.initialLoad, c.markers) >>
      IN
      IF fr = undefined
      THEN [threw |-> TRUE, rendered |-> FALSE, list |-> << >>, markers |-> c.markers,
            initialLoad |-> c.initialLoad, scheduled |-> << >>, trace |-> cleared,
            array |-> fr]
      ELSE IF Len(fr) = 0
      THEN [threw |-> FALSE, rendered |-> TRUE, list |-> << NoResults >>,
            markers |-> c.markers, initialLoad |-> c.initialLoad,
            scheduled |-> << >>, trace |-> cleared, array |-> fr]
      ELSE
        LET visited == Sort(VisitedOf(fr))
            unvisited == UnvisitedOf(fr)
            order == visited \o unvisited
            bad == { i \in 1..Len(order) : addMarkerThrows(order[i]) }
        IN
        IF bad # {}
        THEN \* addMarker throws: the markers before it stay, the fragment is lost
             LET k == CHOOSE i \in bad : \A j \in bad : i <= j
             IN  [threw |-> TRUE, rendered |-> FALSE, list |-> << >>,
                  markers |-> AddMarkers(c.markers, SubSeq(order, 1, k - 1)),
                  initialLoad |-> c.initialLoad, scheduled |-> << >>,
                  trace |-> cleared, array |-> filteredAfterSort(fr)]
        ELSE
        LET m == AddMarkers(AddMarkers(c.markers, visited), unvisited)
            bounds == { visited[i].id : i \in 1..Len(visited) }
                        \cup { unvisited[i].id : i \in 1..Len(unvisited) }
            centered == Len(m) > 0
        IN [threw |-> FALSE, rendered |-> TRUE,
            list |-> Section("Rated Restaurants", visited) \o Section("To Visit", unvisited),
            markers |-> m, initialLoad |-> c.initialLoad,
            scheduled |-> IF centered THEN centerMapIfNeeded(c.initialLoad, m, bounds)
                          ELSE << >>,
            trace |-> cleared \o
                      (IF centered
                       THEN << Call("centerMapIfNeeded", "-", bounds, c.initialLoad, m) >>
                       ELSE << >>),
            array |-> filteredAfterSort(fr)]

\* The filter predicate with the comparison turned round (<= for >=).
matchesRatingBelow(r, filterValue) ==
    filterValue = "" \/
    (r.rating # RUndefined /\ r.rating.t = "number"
        /\ r.rating.n <= parseFloat(filterValue))

\* The filter predicate of applyFilters.
matchesRating(r, filterValue) ==
    filterValue = "" \/
    (r.rating # RUndefined /\ GreaterOrEqual(r.rating, parseFloat(filterValue)))

\* this.restaurants.filter(...) of applyFilters.
applyFilters(rs, filterValue) ==
    SelectSeq(rs, LAMBDA r : matchesRating(r, filterValue))

\* ------------------------------------------------------------- map click
\* The points the user clicks, and no point (tempMarker is null).
ClickPoints == {"p1", "p2"}
NoMarker == "none"

\* e.latlng of a click at p, in units of 1e-7 degree.
Lat(p) == IF p = "p1" THEN 515074456 ELSE 5
Lng(p) == IF p = "p1" THEN -1277585 ELSE -4

\* x.toFixed(6) of a coordinate x given in units of 1e-7 degree, as the number
\* of millionths the string shows: the nearest, the larger magnitude on a tie.
toFixed6(x) == IF x >= 0 THEN (x + 5) \div 10 ELSE -((5 - x) \div 10)

\* A coordinate input of the page as the handler finds it when the page is
\* loaded: on the page or not, and empty.
Input == [present : BOOLEAN, filled : {FALSE}, value : {0}]

\* ------------------------------------------------------------- actions
NoWindow == [added |-> 0, fits |-> 0]

\* The state after the script is loaded, on a page whose coordinate inputs
\* are as in inputs.
InitPage(inputs) ==
    /\ pc = "start"
    /\ pathIdx = 0
    /\ hasList \in BOOLEAN
    /\ restaurants = << >>
    /\ filteredRestaurants = << >>
    /\ ratingFilter = ""
    /\ markers = << >>
    /\ initialLoad = TRUE
    /\ rafQueue = << >>
    /\ list = << >>
    /\ op = [name |-> "none", rendered |-> FALSE, threw |-> FALSE]
    /\ trace = << >>
    /\ window = NoWindow
    /\ prevWindow = NoWindow
    /\ served = << >>
    /\ wired = FALSE
    /\ latInput \in inputs
    /\ lonInput \in inputs
    /\ tempMarker = NoMarker
    /\ tempLayers = << >>

\* A page without the coordinate inputs: the map click handler returns at
\* once, and Next leaves it out.
Init == InitPage({ i \in Input : ~i.present })

\* Pages with and without each coordinate input.
InitClick == InitPage(Input)

\* The state a call of updateDisplay with result d leaves, in handler `name`;
\* more: the calls the handler makes after updateDisplay returned.
Displayed(d, name, more) ==
    /\ filteredRestaurants' = d.array
    /\ markers' = d.markers
    /\ initialLoad' = d.initialLoad
    /\ rafQueue' = rafQueue \o d.scheduled
    /\ list' = d.list
    /\ op' = [name |-> name, rendered |-> d.rendered, threw |-> d.threw]
    /\ trace' = d.trace \o more
    /\ IF hasList
       THEN /\ prevWindow' = window
            /\ window' = [added |-> Len(d.markers), fits |-> 0]
       ELSE UNCHANGED << window, prevWindow >>
    /\ UNCHANGED clickVars

\* fetch(path) of loadRestaurants, as a recorded call.
Fetch(i) == << Call("fetch", paths[i], {}, initialLoad, markers) >>

\* DOMContentLoaded with the listeners attached before the load is awaited.
DOMContentLoadedNoAwait ==
    /\ pc = "start"
    /\ \E mapInitialized \in BOOLEAN :
          IF mapInitialized
          THEN pc' = "fetch" /\ pathIdx' = 1 /\ trace' = Fetch(1) /\ wired' = TRUE
          ELSE pc' = "aborted" /\ pathIdx' = 0 /\ trace' = << >> /\ wired' = FALSE
    /\ op' = [name |-> "DOMContentLoaded", rendered |-> FALSE, threw |-> FALSE]
    /\ UNCHANGED << hasList, restaurants, filteredRestaurants, ratingFilter, markers,
                    initialLoad, rafQueue, list, window, prevWindow, served, clickVars >>

\* DOMContentLoaded: initialize() succeeds or fails; on success loadRestaurants
\* starts the fetch of the first path. Until the handler ends, trace keeps
\* the calls of the whole handler.
DOMContentLoaded ==
    /\ pc = "start"
    /\ \E mapInitialized \in BOOLEAN :
          IF mapInitialized
          THEN pc' = "fetch" /\ pathIdx' = 1 /\ trace' = Fetch(1)
          ELSE pc' = "aborted" /\ pathIdx' = 0 /\ trace' = << >>
    /\ op' = [name |-> "DOMContentLoaded", rendered |-> FALSE, threw |-> FALSE]
    /\ UNCHANGED << hasList, restaurants, filteredRestaurants, ratingFilter, markers,
                    initialLoad, rafQueue, list, window, prevWindow, served, wired,
                    clickVars >>

\* loadRestaurants returns, its outcome being pc ("ready" after the success
\* branch, "failed" after the outer catch), and the handler goes on with
\* setupEventListeners.
LoadReturns(outcome) == pc' = outcome /\ pathIdx' = 0 /\ wired' = TRUE

\* The for loop of loadRestaurants going on after the path in flight failed:
\* the next path is fetched, or (outer catch) loadRestaurants returns.
NextPath ==
    IF pathIdx < Len(paths)
    THEN pc' = "fetch" /\ pathIdx' = pathIdx + 1 /\ wired' = wired
    ELSE LoadReturns("failed")

\* The path in flight failed with flag il and markers m (the inner catch, or
\* a response that is not ok): recorded as "pathFailed", followed by the fetch
\* call NextPath makes.
NextFetch(il, m) ==
    << Call("pathFailed", paths[pathIdx], {}, il, m) >> \o
    (IF pathIdx < Len(paths) THEN Fetch(pathIdx + 1) ELSE << >>)

\* The success branch of loadRestaurants without its `return`.
LoadSucceededNoReturn == NextPath

\* The success branch of loadRestaurants ends with `return`.
LoadSucceeded == LoadReturns("ready")

\* The list element after the path in flight failed and left it as l: the
\* outer catch shows the error message once no path is left.
ListAfterFailure(l) ==
    IF pathIdx < Len(paths) THEN l
    ELSE IF hasList THEN << ErrorMessage >> ELSE l

\* await fetch(path) settles: rejected, a response that is not ok, or ok.
FetchSettled ==
    /\ pc = "fetch"
    /\ \E outcome \in {"rejected", "not-ok", "ok"} :
          IF outcome = "ok"
          THEN pc' = "json" /\ UNCHANGED << pathIdx, list, trace, wired >>
          ELSE /\ NextPath
               /\ list' = ListAfterFailure(list)
               /\ trace' = trace \o NextFetch(initialLoad, markers)
    /\ op' = [name |-> "fetch", rendered |-> FALSE, threw |-> FALSE]
    /\ UNCHANGED << hasList, restaurants, filteredRestaurants, ratingFilter, markers,
                    initialLoad, rafQueue, window, prevWindow, served, clickVars >>

\* await response.json() rejects (the body is not JSON).
JsonRejected ==
    /\ pc = "json"
    /\ NextPath
    /\ list' = ListAfterFailure(list)
    /\ trace' = trace \o NextFetch(initialLoad, markers)
    /\ op' = [name |-> "json", rendered |-> FALSE, threw |-> FALSE]
    /\ UNCHANGED << hasList, restaurants, filteredRestaurants, ratingFilter, markers,
                    initialLoad, rafQueue, window, prevWindow, served, clickVars >>

\* await response.json() yields data: the list is stored, filteredRestaurants
\* is made the same array, and it is displayed; when updateDisplay throws the
\* inner catch goes on with the next path.
JsonLoadedFrom(files) ==
    /\ pc = "json"
    /\ \E data \in files :
          /\ served' = data
          /\ LET d == updateDisplay(data)
             IN  /\ restaurants' = d.array
                 /\ IF d.threw
                    THEN /\ NextPath
                         /\ Displayed([d EXCEPT !.list = ListAfterFailure(d.list),
                                                !.trace = trace \o d.trace
                                                            \o NextFetch(d.initialLoad, d.markers)],
                                      "load", << >>)
                    ELSE /\ LoadSucceeded
                         /\ Displayed([d EXCEPT !.trace = trace \o d.trace], "load", << >>)
    /\ UNCHANGED << hasList, ratingFilter >>

\* The data file is any dataset, or an object without a restaurants list.
JsonLoaded == JsonLoadedFrom(Datasets \cup {undefined})

\* The change listener of the rating filter: filterRestaurants().
Change ==
    /\ wired
    /\ Len(rafQueue) < MaxPending
    /\ \E v \in FilterValues \ {ratingFilter} :
          /\ ratingFilter' = v
          /\ IF restaurants = undefined
             THEN /\ op' = [name |-> "change", rendered |-> FALSE, threw |-> TRUE]
                  /\ trace' = << >>
                  /\ UNCHANGED << filteredRestaurants, markers, initialLoad, rafQueue,
                                  list, window, prevWindow, clickVars >>
             ELSE Displayed(updateDisplay(applyFilters(restaurants, v)), "change", << >>)
    /\ UNCHANGED << pc, pathIdx, hasList, restaurants, served, wired >>

\* The show-all handler fitting only while the auto-center flag is pending.
showAllFitIfPending(m, il) ==
    IF il /\ Len(m) > 0
    THEN << Call("fitBounds", "manual", BoundsOfMarkers(m), il, m) >>
    ELSE << >>

\* The calls of the show-all handler after applyFilters returned.
showAllFit(m, il) ==
    IF Len(m) > 0
    THEN << Call("fitBounds", "manual", BoundsOfMarkers(m), il, m) >>
    ELSE << >>

\* The show-all handler leaving the select as it is.
showAllKeepsFilter(v) == v

\* The value show-all gives the select whose value is v.
showAllFilter(v) == ""

\* The click handler of the show-all button.
ShowAll ==
    /\ wired
    /\ Len(rafQueue) < MaxPending
    /\ ratingFilter' = showAllFilter(ratingFilter)
    /\ IF restaurants = undefined
       THEN /\ op' = [name |-> "showAll", rendered |-> FALSE, threw |-> TRUE]
            /\ trace' = << >>
            /\ UNCHANGED << filteredRestaurants, markers, initialLoad, rafQueue,
                            list, window, prevWindow, clickVars >>
       ELSE LET d == updateDisplay(applyFilters(restaurants, ratingFilter'))
            IN  Displayed(d, "showAll",
                          IF d.threw THEN << >> ELSE showAllFit(d.markers, d.initialLoad))
    /\ UNCHANGED << pc, pathIdx, hasList, restaurants, served, wired >>

\* The callback centerMapIfNeeded hands to requestAnimationFrame, run with
\* the flag il: the fitBounds call it makes.
centerCallback(bounds, il, m) == Call("fitBounds", "auto", bounds, il, m)

\* One animation frame: the queued callbacks run in the order they were
\* requested, each calling fitBounds and then setting initialLoad to false.
AnimationFrame ==
    /\ rafQueue # << >>
    /\ trace' = (IF wired THEN << >> ELSE trace) \o
                [i \in 1..Len(rafQueue) |->
                    centerCallback(rafQueue[i], IF i = 1 THEN initialLoad ELSE FALSE, markers)]
    /\ initialLoad' = FALSE
    /\ rafQueue' = << >>
    /\ window' = [window EXCEPT !.fits = @ + Len(rafQueue)]
    /\ op' = [name |-> "frame", rendered |-> FALSE, threw |-> FALSE]
    /\ UNCHANGED << pc, pathIdx, hasList, restaurants, filteredRestaurants, ratingFilter,
                    markers, list, prevWindow, served, wired, clickVars >>

\* The placeholder layers with the previous placeholder left on the map.
removePreviousKeeps(layers, t) == layers

\* The placeholder layers after the handler removed the previous temporary
\* marker t, if there is one.
removePrevious(layers, t) ==
    IF t # NoMarker THEN SelectSeq(layers, LAMBDA x : x # t) ELSE layers

\* A click on the map at point p: without both inputs the handler returns;
\* otherwise it fills the inputs, removes the previous temporary marker and
\* adds a new one at p. trace is left to the calls of the other handlers.
MapClick ==
    /\ pc \notin {"start", "aborted"}
    /\ \E p \in ClickPoints :
          IF ~latInput.present \/ ~lonInput.present
          THEN UNCHANGED << latInput, lonInput, tempMarker, tempLayers >>
          ELSE /\ latInput' = [latInput EXCEPT !.filled = TRUE, !.value = toFixed6(Lat(p))]
               /\ lonInput' = [lonInput EXCEPT !.filled = TRUE, !.value = toFixed6(Lng(p))]
               /\ tempLayers' = Append(removePrevious(tempLayers, tempMarker), p)
               /\ tempMarker' = p
    /\ op' = [name |-> "click", rendered |-> FALSE, threw |-> FALSE]
    /\ UNCHANGED << pc, pathIdx, hasList, restaurants, filteredRestaurants, ratingFilter,
                    markers, initialLoad, rafQueue, list, trace, window, prevWindow,
                    served, wired >>

Next ==
    \/ DOMContentLoaded
    \/ FetchSettled
    \/ JsonRejected
    \/ JsonLoaded
    \/ Change
    \/ ShowAll
    \/ AnimationFrame

Spec == Init /\ [][Next]_vars

\* The data file of the map click specification: a rated restaurant and one
\* to visit, so that a rating floor removes a marker.
ClickDatasets ==
    { << [id |-> 1, visited |-> TRUE, rating |-> RNum(9), review |-> "string"],
         [id |-> 2, visited |-> FALSE, rating |-> RUndefined, review |-> "string"] >> }

\* await response.json() yields that data file.
ClickJsonLoaded == JsonLoadedFrom(ClickDatasets)

\* The whole program with the map click handler, on every page, over the
\* one data file.
NextClick ==
    \/ DOMContentLoaded
    \/ FetchSettled
    \/ JsonRejected
    \/ ClickJsonLoaded
    \/ Change
    \/ ShowAll
    \/ AnimationFrame
    \/ MapClick

SpecClick == InitClick /\ [][NextClick]_vars

\* ------------------------------------------------------------- properties
\* The calls of the last handler that satisfy fn and via.
Calls(fn, via) ==
    { i \in 1..Len(trace) : trace[i].fn = fn /\ trace[i].via = via }

\* The last handler called updateDisplay (it got past applyFilters).
Rendering == op.name \in {"load", "change", "showAll"} /\ ~op.threw

\* The indices of the restaurant rows of the list.
Rows == { i \in 1..Len(list) : list[i].kind = "restaurant" }

\* The heading a row of the list stands under.
GroupOf(i) ==
    LET hs == { j \in 1..i : list[j].kind = "h3" }
    IN  IF hs = {} THEN "none"
        ELSE list[CHOOSE j \in hs : \A k \in hs : k <= j].text

\* C1: center-once. When a render clears the markers, the render before it, if
\* it added at least one marker, has been followed by exactly one automatic
\* fitBounds call.
C1_CenterOnce == prevWindow.added > 0 => prevWindow.fits = 1

\* C2: every fitBounds call made by a centerMapIfNeeded callback happens while
\* initialLoad is true.
C2_AutoFitOnlyWhilePending ==
    \A i \in Calls("fitBounds", "auto") : trace[i].initialLoad = TRUE

\* C3: when clearMarkers returns, the marker list is empty and initialLoad is
\* true.
C3_ClearLeavesPending ==
    \A i \in Calls("clearMarkers", "-") :
        trace[i].markers = << >> /\ trace[i].initialLoad = TRUE

\* C4: initialLoad is never false (DONE) while the marker list is empty.
C4_DoneOnlyWithMarkers == ~initialLoad => markers # << >>

\* C5 (as stated): every show-all click calls fitBounds directly.
C5_ShowAllAlwaysFits ==
    op.name = "showAll" => Calls("fitBounds", "manual") # {}

\* C5 (amended): a show-all click whose re-render does not throw and that
\* leaves at least one marker calls fitBounds itself, once, as its last call,
\* with the bounds of the live markers and whatever the flag is; any other
\* show-all click calls no fitBounds.
C5_ShowAllFitsLiveMarkers ==
    op.name = "showAll" =>
        IF ~op.threw /\ markers # << >>
        THEN /\ Calls("fitBounds", "manual") = {Len(trace)}
             /\ trace[Len(trace)].bounds = { markers[i] : i \in 1..Len(markers) }
             /\ Calls("fitBounds", "auto") = {}
        ELSE \A i \in 1..Len(trace) : trace[i].fn # "fitBounds"

\* C5 witness: show-all fitted the bounds directly while the flag was DONE.
C5_Witness ==
    /\ op.name = "showAll"
    /\ Calls("fitBounds", "manual") # {}
    /\ ~initialLoad

\* C6 (as stated): a render of an empty filtered list leaves no marker, no
\* row, exactly the no-results placeholder, and does not call
\* centerMapIfNeeded.
C6_EmptyResult ==
    Rendering /\ filteredRestaurants = << >> =>
        /\ markers = << >>
        /\ Rows = {}
        /\ list = << NoResults >>
        /\ Calls("centerMapIfNeeded", "-") = {}

\* C6 (amended): the same, for a page that has the list container.
C6_EmptyResultWithList ==
    hasList /\ Rendering /\ filteredRestaurants = << >> =>
        /\ markers = << >>
        /\ Rows = {}
        /\ list = << NoResults >>
        /\ Calls("centerMapIfNeeded", "-") = {}

\* C6 witness: a filter change emptied a view that showed markers.
C6_Witness ==
    /\ hasList /\ op.name = "change"
    /\ restaurants # << >> /\ filteredRestaurants = << >>
    /\ prevWindow.added > 0
    /\ list = << NoResults >>

\* C7: with the list container present, after a completed render the markers
\* are one per restaurant of the filtered list and nothing else, as many as
\* the rows.
C7_MarkersMatchFiltered ==
    hasList /\ op.rendered =>
        /\ Len(markers) = Len(filteredRestaurants)
        /\ Cardinality(Rows) = Len(filteredRestaurants)
        /\ { markers[i] : i \in 1..Len(markers) }
             = { filteredRestaurants[i].id : i \in 1..Len(filteredRestaurants) }
        /\ { list[i].id : i \in Rows } = { markers[i] : i \in 1..Len(markers) }

\* C7 witness: a filter change replaced the markers of a larger view.
C7_Witness ==
    /\ op.name = "change" /\ op.rendered
    /\ Len(markers) >= 1
    /\ prevWindow.added > Len(markers)

\* C8: in a render of a non-empty filtered list every restaurant has exactly
\* one row, under "Rated Restaurants" iff it is visited with a truthy rating
\* and under "To Visit" otherwise.
C8_Partition ==
    op.rendered /\ filteredRestaurants # << >> =>
        \A k \in 1..Len(filteredRestaurants) :
            LET r == filteredRestaurants[k]
                rows == { i \in Rows : list[i].id = r.id }
                rated == r.visited /\ r.rating.t = "number" /\ r.rating.n # 0
            IN  /\ Cardinality(rows) = 1
                /\ \A i \in rows :
                      GroupOf(i) = IF rated THEN "Rated Restaurants" ELSE "To Visit"

\* C8 witness: both groups shown, one restaurant visited but without a truthy
\* rating.
C8_Witness ==
    /\ op.rendered
    /\ \E i, j \in Rows : GroupOf(i) = "Rated Restaurants" /\ GroupOf(j) = "To Visit"
    /\ \E k \in 1..Len(filteredRestaurants) :
          filteredRestaurants[k].visited /\ filteredRestaurants[k].rating.t # "number"

\* C9: rows under "Rated Restaurants" come first, in non-increasing rating
\* order with dataset order among equal ratings; rows under "To Visit" follow
\* in dataset order.
C9_SortOrder ==
    op.rendered =>
        \A i, j \in Rows :
            i < j =>
                /\ GroupOf(i) = "To Visit" => GroupOf(j) = "To Visit"
                /\ GroupOf(i) = "To Visit" /\ GroupOf(j) = "To Visit" =>
                      list[i].id < list[j].id
                /\ GroupOf(i) = "Rated Restaurants" /\ GroupOf(j) = "Rated Restaurants" =>
                      LET a == restaurants[list[i].id].rating.n
                          b == restaurants[list[j].id].rating.n
                      IN  a >= b /\ (a = b => list[i].id < list[j].id)

\* C9 witness: the sort moved a later restaurant of the dataset before an
\* earlier one.
C9_Witness ==
    /\ op.rendered
    /\ \E i, j \in Rows :
          /\ i < j /\ list[i].id > list[j].id
          /\ GroupOf(i) = "Rated Restaurants" /\ GroupOf(j) = "Rated Restaurants"

\* C10: after applyFilters the filtered list is the dataset, in dataset order,
\* restricted to the restaurants that have a number as rating at or above the
\* floor, or the whole dataset when no floor is set.
C10_FilterMatch ==
    op.name \in {"change", "showAll"} /\ ~op.threw =>
        LET fr == filteredRestaurants
            kept == { fr[i].id : i \in 1..Len(fr) }
        IN  /\ \A i \in 1..Len(fr) :
                  fr[i].id \in 1..Len(restaurants) /\ fr[i] = restaurants[fr[i].id]
            /\ \A i, j \in 1..Len(fr) : i < j => fr[i].id < fr[j].id
            /\ \A k \in 1..Len(restaurants) :
                  k \in kept <=>
                      \/ ratingFilter = ""
                      \/ /\ restaurants[k].rating.t = "number"
                         /\ restaurants[k].rating.n >= parseFloat(ratingFilter)

\* C10 witness: a floor kept a restaurant rated exactly at it and dropped a
\* visited restaurant whose rating is null.
C10_Witness ==
    /\ op.name = "change" /\ ~op.threw /\ ratingFilter # ""
    /\ \E i \in 1..Len(filteredRestaurants) :
          filteredRestaurants[i].rating.n = parseFloat(ratingFilter)
    /\ \E k \in 1..Len(restaurants) :
          /\ restaurants[k].visited /\ restaurants[k].rating = RNull
          /\ \A i \in 1..Len(filteredRestaurants) : filteredRestaurants[i].id # k

\* The restaurants (ids) applyFilters keeps of the loaded dataset under floor f.
Kept(f) ==
    LET fr == applyFilters(restaurants, f)
    IN  { fr[i].id : i \in 1..Len(fr) }

\* C11: over the loaded dataset, a higher floor keeps a subset of what a lower
\* floor keeps, and a restaurant rated exactly at the floor is kept.
C11_FilterMonotone ==
    restaurants # undefined =>
        /\ \A f1, f2 \in FilterValues \ {""} :
              parseFloat(f1) <= parseFloat(f2) => Kept(f2) \subseteq Kept(f1)
        /\ \A f \in FilterValues \ {""} :
              \A k \in 1..Len(restaurants) :
                  restaurants[k].rating = RNum(parseFloat(f)) => k \in Kept(f)

\* C11 witness: the floor was raised to the rating of one restaurant, which
\* stayed, and a lower-rated restaurant that the lowest floor keeps was dropped.
C11_Witness ==
    /\ op.name = "change" /\ ~op.threw /\ ratingFilter = "9"
    /\ \E i \in 1..Len(filteredRestaurants) : filteredRestaurants[i].rating = RNum(9)
    /\ Kept("9") # Kept("5")

\* C16: once an automatic fitBounds has run, a filter change with a non-empty
\* result asks for no further automatic fitBounds.
C16_NoRecenterOnFilter ==
    op.name = "change" /\ op.rendered /\ markers # << >> /\ prevWindow.fits > 0 =>
        /\ rafQueue = << >>
        /\ \A i \in Calls("centerMapIfNeeded", "-") : ~trace[i].initialLoad

\* C19: the bounds an automatic fitBounds call passes are the bounds of the
\* restaurants whose markers are live at the call.
C19_NoStaleFit ==
    \A i \in Calls("fitBounds", "auto") :
        trace[i].bounds = { trace[i].markers[j] : j \in 1..Len(trace[i].markers) }

\* The positions in trace of the calls of fn, whatever the via.
CallsOf(fn) == { i \in 1..Len(trace) : trace[i].fn = fn }

\* loadRestaurants has just run its success branch: updateDisplay returned.
LoadSuccess == op.name = "load" /\ ~op.threw

\* loadRestaurants has just ended in its outer catch.
LoadFailure == op.name \in {"fetch", "json", "load"} /\ pc = "failed"

\* C12: when loadRestaurants ends in success, the paths were fetched in the
\* order of the list starting with the primary one, each but the last having
\* failed before the next was fetched; the last fetch has not failed and is
\* followed by exactly one updateDisplay; restaurants is the list that path
\* served and filteredRestaurants is the same list; no further path is
\* fetched.
C12_LoadSuccess ==
    LoadSuccess =>
        LET F == CallsOf("fetch")
            last == CHOOSE i \in F : \A j \in F : j <= i
        IN  /\ F # {}
            /\ \A i \in F : trace[i].via = paths[Cardinality({ j \in F : j <= i })]
            /\ \A i \in F \ {last} :
                  \E k \in CallsOf("pathFailed") :
                      /\ trace[k].via = trace[i].via
                      /\ i < k
                      /\ \A j \in F : i < j => k < j
            /\ \A k \in CallsOf("pathFailed") : k < last
            /\ Cardinality({ u \in CallsOf("updateDisplay") : u > last }) = 1
            /\ restaurants = served
            /\ filteredRestaurants = restaurants
            /\ pc = "ready" /\ pathIdx = 0

\* C12 witness: the secondary path succeeded after the primary one failed, and
\* its list is displayed.
C12_Witness ==
    /\ LoadSuccess
    /\ Cardinality(CallsOf("fetch")) = 2
    /\ op.rendered /\ markers # << >>

\* C13: when loadRestaurants ends in total failure on a page with the list
\* container, the list shows the error message, there is no live marker, and
\* each path was fetched at most once.
C13_LoadFailure ==
    hasList /\ LoadFailure =>
        /\ list = << ErrorMessage >>
        /\ markers = << >>
        /\ \A i, j \in CallsOf("fetch") : trace[i].via = trace[j].via => i = j

\* C14: the listeners are attached only once loadRestaurants has ended; no
\* filter change or show-all click runs while a path is in flight; after a
\* failed initialize nothing is fetched, loaded, displayed or attached.
C14_StartupOrdering ==
    /\ wired => pc \in {"ready", "failed"}
    /\ op.name \in {"change", "showAll"} => wired
    /\ pc \in {"start", "fetch", "json"} => ~wired /\ ratingFilter = ""
    /\ pc = "aborted" =>
          /\ ~wired
          /\ op.name = "DOMContentLoaded"
          /\ trace = << >>
          /\ restaurants = << >> /\ served = << >>
          /\ markers = << >> /\ list = << >>

\* C14 witness: a filter change displayed a list after a successful load.
C14_Witness ==
    /\ op.name = "change" /\ op.rendered
    /\ pc = "ready"
    /\ markers # << >>

\* C15: restaurants is the list the last response.json() gave, same elements
\* in the same order, in every state.
C15_DatasetNeverMutated == restaurants = served

\* C15 witness: a filter change displayed the Rated group in an order other
\* than the order of the dataset.
C15_Witness ==
    /\ op.name \in {"change", "showAll"} /\ op.rendered
    /\ \E i, j \in Rows :
          /\ i < j /\ list[i].id > list[j].id
          /\ GroupOf(i) = "Rated Restaurants" /\ GroupOf(j) = "Rated Restaurants"
    /\ restaurants = served

\* The ids of the loaded dataset.
DatasetIds == { restaurants[i].id : i \in 1..Len(restaurants) }

\* C17 (as stated): after a show-all click on a successfully loaded dataset
\* the select is empty, filteredRestaurants holds the whole dataset, and the
\* markers and the rows are one per restaurant of the dataset.
C17_ShowAllClearsFilter ==
    op.name = "showAll" /\ pc = "ready" =>
        /\ ratingFilter = ""
        /\ filteredRestaurants = restaurants
        /\ Len(markers) = Len(restaurants)
        /\ { markers[i] : i \in 1..Len(markers) } = DatasetIds
        /\ { list[i].id : i \in Rows } = DatasetIds

\* C17 (amended): the same, for a page that has the list container.
C17_ShowAllClearsFilterWithList ==
    hasList /\ op.name = "showAll" /\ pc = "ready" =>
        /\ ratingFilter = ""
        /\ filteredRestaurants = restaurants
        /\ Len(markers) = Len(restaurants)
        /\ Cardinality(Rows) = Len(restaurants)
        /\ { markers[i] : i \in 1..Len(markers) } = DatasetIds
        /\ { list[i].id : i \in Rows } = DatasetIds

\* C17 witness: show-all brought back restaurants a rating floor had hidden.
C17_Witness ==
    /\ hasList /\ op.name = "showAll" /\ pc = "ready"
    /\ prevWindow.added < Len(markers)
    /\ Len(markers) = Len(restaurants)

\* The program state a map click may touch or leave alone.
clickState == << latInput, lonInput, tempMarker, tempLayers, markers, initialLoad,
                 rafQueue, list, restaurants, filteredRestaurants, ratingFilter >>

\* C18: at most one placeholder is on the map, the one tempMarker refers to; a
\* click with both inputs present leaves exactly the placeholder of the clicked
\* point and the inputs filled with its coordinates; no click changes the
\* restaurant markers; a click with an input absent changes nothing; and no
\* other handler (clearMarkers included) removes or adds a placeholder.
C18_Placeholder ==
    /\ [](/\ Len(tempLayers) <= 1
          /\ tempLayers = IF tempMarker = NoMarker THEN << >> ELSE << tempMarker >>
          /\ op.name = "click" /\ latInput.present /\ lonInput.present =>
                /\ tempMarker \in ClickPoints
                /\ latInput.filled /\ latInput.value = toFixed6(Lat(tempMarker))
                /\ lonInput.filled /\ lonInput.value = toFixed6(Lng(tempMarker)))
    /\ [][ /\ op'.name = "click" => markers' = markers
           /\ op'.name = "click" /\ ~(latInput.present /\ lonInput.present) =>
                 UNCHANGED clickState
           /\ op'.name # "click" => UNCHANGED << tempMarker, tempLayers >> ]_vars

\* C18 witness: a second click moved the placeholder, and a render that
\* cleared restaurant markers has left it on the map.
C18_Witness ==
    /\ tempMarker = "p2" /\ tempLayers = << "p2" >>
    /\ latInput.value = 1 /\ lonInput.value = 0
    /\ op.name = "change" /\ op.rendered
    /\ prevWindow.added > 0

====
